---------------------------- MODULE Spec2Model ----------------------------
(***************************************************************************)
(* StudyDataset (kedro_datasets/optuna/study_dataset.py) and               *)
(* DartsTorchModelDataset (kedro_datasets_experimental/darts/              *)
(* darts_torch_model_dataset.py) as state machines.                        *)
(*                                                                         *)
(* A string that names a study is kept as the sequence of the pieces its   *)
(* '/' characters separate: "study1/2024-01-01T00.00.00/study1" is         *)
(* <<"study1", "2024-01-01T00.00.00", "study1">>, "study1/" is             *)
(* <<"study1", "">> and "/study1" is <<"", "study1">>.  Joining two        *)
(* strings with '/' is concatenating their sequences.                      *)
(* Python's None is the string "None"; an optional dict is a record        *)
(* [none, d].                                                              *)
(***************************************************************************)
EXTENDS Integers, Sequences, FiniteSets, TLC

VARIABLES
    study_name,     \* StudyDataset._study_name (one catalog entry, shared by the writers)
    _version,       \* StudyDataset._version
    _backend,       \* StudyDataset._backend
    db,             \* the relational storage: study name -> records of the study
    fileExists,     \* os.path.isfile(self._filepath) of the sqlite file
    pc,             \* per writer: position inside StudyDataset.save
    cur,            \* per writer: save_study_name of the save in progress
    held,           \* per writer: the optuna.Study object the process holds
    res,            \* per writer: outcome of the last load/save call
    ops,            \* per writer: backend write operations the current/last save invoked
    existsReport,   \* per writer: what the exists check of save's step 1 reported
    interfered,     \* per writer: another writer created cur[p] after this save's step 1
    _load_args,     \* per writer: StudyDataset._load_args
    frame,          \* per writer: locals of the last load() call
    r_load,         \* result of the last _get_load_study_name call
    r_save,         \* result of the last _get_save_study_name call
    env,            \* process environment (DB_USERNAME, DB_PASSWORD, DB_HOST, DB_PORT)
    credentials,    \* the credentials argument given to StudyDataset.__init__
    _storage,       \* StudyDataset._storage, as the URL's components
    d_versioned,    \* DartsTorchModelDataset: whether a Version was given
    d_load_args,    \* DartsTorchModelDataset._load_args
    d_save_args,    \* DartsTorchModelDataset._save_args
    d_calls,        \* DartsTorchModelDataset: collaborator calls of the last operation
    d_raised,       \* DartsTorchModelDataset: error raised inside the last operation
    d_res           \* DartsTorchModelDataset: outcome of the last operation

studyVars == <<study_name, _version, _backend, db, fileExists, pc, cur, held, res,
               ops, existsReport, interfered, _load_args, frame>>
resolveVars == <<r_load, r_save>>
initVars == <<env, credentials, _storage>>
dartsVars == <<d_versioned, d_load_args, d_save_args, d_calls, d_raised, d_res>>
vars == <<studyVars, resolveVars, initVars, dartsVars>>

None == "None"

\* ------------------------------------------------------------------ bounds
\* number of version tokens in use
MaxVersions == 2
\* number of distinct record sets an in-memory study may hold
MaxRecs == 2

AllTokens == <<"2024-01-01T00.00.00", "2024-01-02T00.00.00",
               "2024-01-03T00.00.00", "2024-01-04T00.00.00">>
Tokens == {AllTokens[i] : i \in 1..MaxVersions}
Recs == 1..MaxRecs
LogicalNames == {<<"study1">>, <<"study2">>, <<"study1", "">>, <<"", "study1">>}
Writers == {"w1", "w2"}

\* Segments in the order Python compares them as strings.  '/' sorts before
\* digits and letters, digits before letters, and no segment but "" is a
\* prefix of another, so comparing two names as strings is comparing them
\* segment by segment.
SegOrder == <<"">> \o AllTokens \o <<"no-name", "other", "study1", "study2", "tmp">>
Rank(s) == CHOOSE i \in DOMAIN SegOrder : SegOrder[i] = s

\* a < b for two study names as Python strings
RECURSIVE PathLess(_, _)
PathLess(a, b) ==
    IF a = <<>> THEN b # <<>>
    ELSE IF b = <<>> THEN FALSE
    ELSE IF Head(a) = Head(b) THEN PathLess(Tail(a), Tail(b))
    ELSE Rank(Head(a)) < Rank(Head(b))


\* ------------------------------------------------- kedro.io.core.Version
Version(load, save) == [enabled |-> TRUE, load |-> load, save |-> save]
\* version=None: versioning disabled
NoVersion == [enabled |-> FALSE, load |-> None, save |-> None]
VersionSpecs == {NoVersion} \cup {Version(l, s) : l \in Tokens \cup {None}, s \in Tokens \cup {None}}

\* ------------------------------------------------- the storage collaborator
\* optuna.study.get_all_study_names(storage)
get_all_study_names(store) == DOMAIN store

\* the store without study n / with study n holding records r
Without(store, n) == [m \in (DOMAIN store) \ {n} |-> store[m]]
With(store, n, r) == [m \in (DOMAIN store) \cup {n} |-> IF m = n THEN r ELSE store[m]]
EmptyStore == [m \in {} |-> 0]

\* the study optuna.create_study(storage=...) makes when no name is given
\* ("no-name-<uuid>"; the uuid suffix is dropped)
NoName == <<"no-name">>

\* ------------------------------------------------- StudyDataset: pure parts
\* PurePosixPath(s): empty and "." pieces drop out; a leading '/' makes the
\* path absolute
PurePosixPath(s) ==
    [abs |-> Len(s) > 1 /\ s[1] = "",
     parts |-> SelectSeq(s, LAMBDA x : x \notin {"", "."})]

\* a / b: an absolute right operand replaces the left one
Join(a, b) == IF b.abs THEN b ELSE [abs |-> a.abs, parts |-> a.parts \o b.parts]

\* str(path)
Str(path) ==
    IF path.abs
    THEN IF path.parts = <<>> THEN <<"", "">> ELSE <<"">> \o path.parts
    ELSE IF path.parts = <<>> THEN <<".">> ELSE path.parts

\* PurePath(s).parent.name
ParentName(s) ==
    LET parts == PurePosixPath(s).parts
    IN IF Len(parts) >= 2 THEN parts[Len(parts) - 1] ELSE ""

\* mutant: the version directory without the repeated study name
_get_versioned_path_short(name, version) ==
    Join(PurePosixPath(name), PurePosixPath(<<version>>))

_get_versioned_path(name, version) ==
    LET study_name_posix == PurePosixPath(name)
    IN Join(Join(study_name_posix, PurePosixPath(<<version>>)), study_name_posix)

_study_name_exists(backend, isfile, store, path) ==
    IF backend = "sqlite" /\ ~isfile
    THEN FALSE
    ELSE path \in get_all_study_names(store)

\* fnmatch.fnmatch(path, pattern) for a pattern with at most one "*" piece,
\* the shapes the dataset builds.  With "pre/*/post": as strings, path
\* starts with "pre/", ends with "/post" and is long enough to hold both;
\* '*' also matches '/', so any number (>= 1) of pieces may stand between.
\* Without "*" the pattern matches itself alone.
fnmatch(path, pattern) ==
    IF \E i \in DOMAIN pattern : pattern[i] = "*"
    THEN LET i == CHOOSE j \in DOMAIN pattern : pattern[j] = "*"
             post == SubSeq(pattern, i + 1, Len(pattern))
         IN /\ Len(path) >= Len(pattern)
            /\ SubSeq(path, 1, i - 1) = SubSeq(pattern, 1, i - 1)
            /\ SubSeq(path, Len(path) - Len(post) + 1, Len(path)) = post
    ELSE path = pattern

_study_name_glob(store, pattern) ==
    {n \in get_all_study_names(store) : fnmatch(n, pattern)}

\* AbstractVersionedDataset.resolve_save_version: the pinned save version,
\* else a freshly generated timestamp
resolve_save_version(version, generated) ==
    IF version.save # None THEN version.save ELSE generated

\* sorted(paths, reverse=True)[0]
Latest(paths) == CHOOSE m \in paths : \A n \in paths : n = m \/ PathLess(n, m)

\* AbstractVersionedDataset._fetch_latest_load_version: glob the pattern
\* name/*/name, take the greatest path that exists, return the name of its
\* parent directory (the segment before the last one)
_fetch_latest_load_version(name, backend, isfile, store) ==
    LET pattern == Str(_get_versioned_path(name, "*"))
        found == {n \in _study_name_glob(store, pattern) :
                      _study_name_exists(backend, isfile, store, n)}
    IN IF found = {}
       THEN [status |-> "DatasetError", version |-> None]
       ELSE [status |-> "ok", version |-> ParentName(Latest(found))]

resolve_load_version(version, name, backend, isfile, store) ==
    IF ~version.enabled THEN [status |-> "ok", version |-> None]
    ELSE IF version.load # None THEN [status |-> "ok", version |-> version.load]
    ELSE _fetch_latest_load_version(name, backend, isfile, store)

\* which collaborators resolve_load_version consults
LoadConsults(version, name, store) ==
    IF ~version.enabled \/ version.load # None THEN {}
    ELSE IF _study_name_glob(store, Str(_get_versioned_path(name, "*"))) = {} THEN {"glob"}
    ELSE {"glob", "exists"}

\* mutant: the unversioned branch is gone, the name is always resolved
_get_load_study_name_always_versioned(version, name, backend, isfile, store) ==
    LET lv == _fetch_latest_load_version(name, backend, isfile, store)
    IN IF lv.status # "ok"
       THEN [status |-> lv.status, name |-> <<>>, calls |-> {"glob", "exists"}]
       ELSE [status |-> "ok", name |-> Str(_get_versioned_path(name, lv.version)),
             calls |-> {"glob", "exists"}]

_get_load_study_name(version, name, backend, isfile, store) ==
    IF ~version.enabled
    THEN [status |-> "ok", name |-> name, calls |-> {}]
    ELSE LET lv == resolve_load_version(version, name, backend, isfile, store)
         IN IF lv.status # "ok"
            THEN [status |-> lv.status, name |-> <<>>,
                  calls |-> LoadConsults(version, name, store)]
            ELSE [status |-> "ok", name |-> Str(_get_versioned_path(name, lv.version)),
                  calls |-> LoadConsults(version, name, store)]

\* mutant: the conflict check is missing
_get_save_study_name_unchecked(version, name, generated, backend, isfile, store) ==
    IF ~version.enabled
    THEN [status |-> "ok", name |-> name, calls |-> {}, exists |-> "none"]
    ELSE LET vn == Str(_get_versioned_path(name, resolve_save_version(version, generated)))
         IN [status |-> "ok", name |-> vn, calls |-> {"exists"},
             exists |-> IF _study_name_exists(backend, isfile, store, vn)
                        THEN "present" ELSE "absent"]

_get_save_study_name(version, name, generated, backend, isfile, store) ==
    IF ~version.enabled
    THEN [status |-> "ok", name |-> name, calls |-> {}, exists |-> "none"]
    ELSE LET save_version == resolve_save_version(version, generated)
             versioned_study_name == _get_versioned_path(name, save_version)
         IN IF _study_name_exists(backend, isfile, store, Str(versioned_study_name))
            THEN [status |-> "DatasetError", name |-> <<>>, calls |-> {"exists"},
                  exists |-> "present"]
            ELSE [status |-> "ok", name |-> Str(versioned_study_name),
                  calls |-> {"exists"}, exists |-> "absent"]


\* ------------------------------------------------- StudyDataset: load_args
\* an optional dict: None, or the mapping d (keys and values are strings)
EmptyDict == [k \in {} |-> ""]
NoneDict == [none |-> TRUE, d |-> EmptyDict]
Dict(d) == [none |-> FALSE, d |-> d]
Pop(d, key) == [k \in (DOMAIN d) \ {key} |-> d[k]]

\* the closed registries optuna.samplers and optuna.pruners
Samplers == {"TPESampler", "RandomSampler"}
Pruners == {"NopPruner", "MedianPruner"}

\* DEFAULT_LOAD_ARGS
DEFAULT_LOAD_ARGS == [sampler |-> NoneDict, pruner |-> NoneDict]

\* mutant: a shallow copy, whose nested sampler/pruner dicts are the stored ones
shallow_copy(x) == [val |-> x, alias |-> TRUE]

\* copy.deepcopy: the copy shares no dict with the original
deepcopy(x) == [val |-> x, alias |-> FALSE]

\* _get_sampler_from_config / _get_pruner_from_config, which differ in the
\* registry alone.  config is what the dict passed in holds when the call
\* ends; calls are the constructor invocations made.
FromConfig(config, registry, kind) ==
    IF config.none
    THEN [status |-> "ok", config |-> config, calls |-> <<>>]
    ELSE IF "class" \notin DOMAIN config.d
    THEN [status |-> "ValueError", config |-> config, calls |-> <<>>]
    ELSE LET cls == config.d["class"]
             rest == Dict(Pop(config.d, "class"))
         IN IF cls \notin registry
            THEN [status |-> "AttributeError", config |-> rest, calls |-> <<>>]
            ELSE [status |-> "ok", config |-> rest,
                  calls |-> <<[registry |-> kind, cls |-> cls, kwargs |-> rest.d]>>]

_get_sampler_from_config(sampler_config) == FromConfig(sampler_config, Samplers, "samplers")

_get_pruner_from_config(pruner_config) == FromConfig(pruner_config, Pruners, "pruners")

\* ------------------------------------------------- StudyDataset: operations
MemStudy(r) == [study_name |-> NoName, _storage |-> "mem", recs |-> r]
DbStudy(n) == [study_name |-> n, _storage |-> "db", recs |-> 0]
NoFrame == [sampler_config |-> NoneDict, pruner_config |-> NoneDict, calls |-> <<>>]
Outcome(op, status) == [op |-> op, status |-> status]

\* a new call by p: the record of its previous save is dropped
Fresh(p) ==
    /\ ops' = [ops EXCEPT ![p] = {}]
    /\ existsReport' = [existsReport EXCEPT ![p] = "none"]
    /\ interfered' = [interfered EXCEPT ![p] = FALSE]
    /\ cur' = [cur EXCEPT ![p] = <<>>]

\* the process builds a study of its own, in memory (optuna.create_study())
NewStudy(p) ==
    /\ pc[p] = "idle"
    /\ \E r \in Recs : held' = [held EXCEPT ![p] = MemStudy(r)]
    /\ held'[p] # held[p]
    /\ UNCHANGED <<study_name, _version, _backend, db, fileExists, pc, cur, res, ops,
                   existsReport, interfered, _load_args, frame>>
    /\ UNCHANGED <<resolveVars, initVars, dartsVars>>

\* StudyDataset.load
Load(p) ==
    /\ pc[p] = "idle"
    /\ LET load_args == deepcopy(_load_args[p])
           s == _get_sampler_from_config(load_args.val.sampler)
           pr == IF s.status = "ok"
                 THEN _get_pruner_from_config(load_args.val.pruner)
                 ELSE [status |-> "ok", config |-> load_args.val.pruner, calls |-> <<>>]
           nm == _get_load_study_name(_version, study_name, _backend, fileExists, db)
           status == IF s.status # "ok" THEN s.status
                     ELSE IF pr.status # "ok" THEN pr.status
                     ELSE IF nm.status # "ok" THEN nm.status
                     ELSE IF nm.name \in get_all_study_names(db) THEN "ok"
                     ELSE "KeyError"
       IN /\ frame' = [frame EXCEPT ![p] = [sampler_config |-> s.config,
                                            pruner_config |-> pr.config,
                                            calls |-> s.calls \o pr.calls]]
          /\ _load_args' = IF load_args.alias
                           THEN [_load_args EXCEPT ![p] = [sampler |-> s.config,
                                                           pruner |-> pr.config]]
                           ELSE _load_args
          /\ res' = [res EXCEPT ![p] = Outcome("load", status)]
          /\ held' = IF status = "ok"
                     THEN [held EXCEPT ![p] = DbStudy(nm.name)]
                     ELSE held
    /\ Fresh(p)
    /\ UNCHANGED <<study_name, _version, _backend, db, fileExists, pc>>
    /\ UNCHANGED <<resolveVars, initVars, dartsVars>>

\* StudyDataset.save, step 1: save_study_name = self._get_save_study_name()
SaveResolve(p) ==
    /\ pc[p] = "idle"
    /\ \E generated \in Tokens :
         LET nm == _get_save_study_name(_version, study_name, generated,
                                        _backend, fileExists, db)
         IN /\ existsReport' = [existsReport EXCEPT ![p] = nm.exists]
            /\ cur' = [cur EXCEPT ![p] = nm.name]
            /\ IF nm.status = "ok"
               THEN /\ pc' = [pc EXCEPT ![p] = "init_store"]
                    /\ res' = [res EXCEPT ![p] = Outcome("save", "running")]
               ELSE /\ pc' = pc
                    /\ res' = [res EXCEPT ![p] = Outcome("save", nm.status)]
    /\ ops' = [ops EXCEPT ![p] = {}]
    /\ interfered' = [interfered EXCEPT ![p] = FALSE]
    /\ UNCHANGED <<study_name, _version, _backend, db, fileExists, held, _load_args, frame>>
    /\ UNCHANGED <<resolveVars, initVars, dartsVars>>

\* step 2: a sqlite file that does not exist yet is created, with one
\* unnamed study in it
SaveInitStore(p) ==
    /\ pc[p] = "init_store"
    /\ IF _backend = "sqlite" /\ ~fileExists
       THEN /\ fileExists' = TRUE
            /\ db' = With(db, NoName, 0)
            /\ ops' = [ops EXCEPT ![p] = @ \cup {"create"}]
       ELSE UNCHANGED <<fileExists, db, ops>>
    /\ pc' = [pc EXCEPT ![p] = "check"]
    /\ UNCHANGED <<study_name, _version, _backend, cur, held, res, existsReport,
                   interfered, _load_args, frame>>
    /\ UNCHANGED <<resolveVars, initVars, dartsVars>>

\* step 3, the test: if self._study_name_exists(save_study_name)
SaveCheck(p) ==
    /\ pc[p] = "check"
    /\ pc' = [pc EXCEPT ![p] = IF _study_name_exists(_backend, fileExists, db, cur[p])
                               THEN "delete" ELSE "copy"]
    /\ UNCHANGED <<study_name, _version, _backend, db, fileExists, cur, held, res, ops,
                   existsReport, interfered, _load_args, frame>>
    /\ UNCHANGED <<resolveVars, initVars, dartsVars>>

\* step 3, the deletion: optuna.delete_study (KeyError when the study is gone)
SaveDelete(p) ==
    /\ pc[p] = "delete"
    /\ ops' = [ops EXCEPT ![p] = @ \cup {"delete"}]
    /\ IF cur[p] \in get_all_study_names(db)
       THEN /\ db' = Without(db, cur[p])
            /\ pc' = [pc EXCEPT ![p] = "copy"]
            /\ res' = res
       ELSE /\ db' = db
            /\ pc' = [pc EXCEPT ![p] = "idle"]
            /\ res' = [res EXCEPT ![p] = Outcome("save", "KeyError")]
    /\ UNCHANGED <<study_name, _version, _backend, fileExists, cur, held, existsReport,
                   interfered, _load_args, frame>>
    /\ UNCHANGED <<resolveVars, initVars, dartsVars>>

\* what optuna.copy_study does with the study object given to save: the
\* source is loaded from its storage (KeyError when it is not there), the
\* target is created (DuplicatedStudyError when it is), the records are copied
copy_study(store, study, to_study_name) ==
    IF study._storage = "db" /\ study.study_name \notin get_all_study_names(store)
    THEN [status |-> "KeyError", store |-> store]
    ELSE IF to_study_name \in get_all_study_names(store)
    THEN [status |-> "DuplicatedStudyError", store |-> store]
    ELSE [status |-> "ok",
          store |-> With(store, to_study_name,
                         IF study._storage = "db" THEN store[study.study_name]
                         ELSE study.recs)]

\* step 4: optuna.copy_study
SaveCopy(p) ==
    /\ pc[p] = "copy"
    /\ LET c == copy_study(db, held[p], cur[p])
       IN /\ db' = c.store
          /\ res' = [res EXCEPT ![p] = Outcome("save", c.status)]
          /\ interfered' = [q \in Writers |->
                              IF /\ q # p
                                 /\ c.status = "ok"
                                 /\ pc[q] \in {"init_store", "check"}
                                 /\ cur[q] = cur[p]
                              THEN TRUE ELSE interfered[q]]
    /\ ops' = [ops EXCEPT ![p] = @ \cup {"copy"}]
    /\ pc' = [pc EXCEPT ![p] = "idle"]
    /\ UNCHANGED <<study_name, _version, _backend, fileExists, cur, held, existsReport,
                   _load_args, frame>>
    /\ UNCHANGED <<resolveVars, initVars, dartsVars>>


\* _get_load_study_name and _get_save_study_name called on their own
NoLoadResult == [status |-> "none", name |-> <<>>, calls |-> {}]
NoSaveResult == [status |-> "none", name |-> <<>>, calls |-> {}, exists |-> "none"]

ResolveLoad ==
    /\ r_load' = _get_load_study_name(_version, study_name, _backend, fileExists, db)
    /\ r_load' # r_load
    /\ UNCHANGED <<studyVars, r_save, initVars, dartsVars>>

ResolveSave ==
    /\ \E generated \in Tokens :
         r_save' = _get_save_study_name(_version, study_name, generated,
                                        _backend, fileExists, db)
    /\ r_save' # r_save
    /\ UNCHANGED <<studyVars, r_load, initVars, dartsVars>>

\* ------------------------------------------------- initial states
Backends == {"sqlite", "postgresql"}

\* the name a dataset with this logical name gives version token t
Convention(name, t) == PurePosixPath(name).parts \o <<t>> \o PurePosixPath(name).parts

\* the stores over the study names in ns, every study holding records 1
Stores(ns) == UNION {[S -> {1}] : S \in SUBSET ns}

\* a sqlite file that does not exist holds no study
FileStates(backend, store) ==
    IF backend = "sqlite" /\ store = EmptyStore THEN {TRUE, FALSE} ELSE {TRUE}

WritersIdle ==
    /\ pc = [p \in Writers |-> "idle"]
    /\ cur = [p \in Writers |-> <<>>]
    /\ held = [p \in Writers |-> MemStudy(1)]
    /\ res = [p \in Writers |-> Outcome("none", "none")]
    /\ ops = [p \in Writers |-> {}]
    /\ existsReport = [p \in Writers |-> "none"]
    /\ interfered = [p \in Writers |-> FALSE]
    /\ frame = [p \in Writers |-> NoFrame]

ResolveIdle == r_load = NoLoadResult /\ r_save = NoSaveResult

Fields == {"username", "password", "host", "port"}
InitIdle ==
    /\ env = [f \in Fields |-> None]
    /\ credentials = NoneDict
    /\ _storage = [constructed |-> FALSE, url |-> [f \in Fields |-> None]]

DartsIdle ==
    /\ d_versioned = FALSE
    /\ d_load_args = EmptyDict
    /\ d_save_args = EmptyDict
    /\ d_calls = <<>>
    /\ d_raised = None
    /\ d_res = [op |-> "none", status |-> "none", value |-> None]

\* ------------------------------------------------- Spec: writers saving and loading
StudyVersions == {NoVersion} \cup {Version(None, s) : s \in Tokens}

Init ==
    /\ study_name = <<"study1">>
    /\ _version \in StudyVersions
    /\ _backend \in Backends
    /\ db \in Stores({study_name, Convention(study_name, AllTokens[1])})
    /\ fileExists \in FileStates(_backend, db)
    /\ _load_args = [p \in Writers |-> DEFAULT_LOAD_ARGS]
    /\ WritersIdle /\ ResolveIdle /\ InitIdle /\ DartsIdle

Next ==
    \E p \in Writers :
        \/ NewStudy(p)
        \/ Load(p)
        \/ SaveResolve(p)
        \/ SaveInitStore(p)
        \/ SaveCheck(p)
        \/ SaveDelete(p)
        \/ SaveCopy(p)

Spec == Init /\ [][Next]_vars

\* ------------------------------------------------- SpecResolve: name resolution
\* studies of other users of the storage
ForeignNames(name) ==
    {PurePosixPath(name).parts \o <<AllTokens[2], "tmp">> \o PurePosixPath(name).parts,
     <<"other">>}

InitResolve ==
    /\ study_name \in LogicalNames
    /\ _version \in VersionSpecs
    /\ _backend \in Backends
    /\ db \in Stores({study_name} \cup {Convention(study_name, t) : t \in Tokens}
                     \cup ForeignNames(study_name))
    /\ fileExists \in FileStates(_backend, db)
    /\ _load_args = [p \in Writers |-> DEFAULT_LOAD_ARGS]
    /\ WritersIdle /\ ResolveIdle /\ InitIdle /\ DartsIdle

NextResolve == ResolveLoad \/ ResolveSave

SpecResolve == InitResolve /\ [][NextResolve]_vars


\* ------------------------------------------------- SpecBuild: load with load_args
ClassNames == {"TPESampler", "NopPruner"}
ConfigDicts ==
    UNION {[S -> {"42"}] : S \in SUBSET {"seed"}}
    \cup {[k \in {"class"} \cup S |-> IF k = "class" THEN c ELSE "42"] :
              c \in ClassNames, S \in SUBSET {"seed"}}
Configs == {NoneDict} \cup {Dict(d) : d \in ConfigDicts}

InitBuild ==
    /\ study_name = <<"study1">>
    /\ _version = NoVersion
    /\ _backend = "postgresql"
    /\ db \in Stores({study_name})
    /\ fileExists = TRUE
    /\ \E s \in Configs, pr \in Configs :
         \* self._load_args = {**self.DEFAULT_LOAD_ARGS, **(load_args or {})}
         _load_args = [p \in Writers |-> [sampler |-> s, pruner |-> pr]]
    /\ WritersIdle /\ ResolveIdle /\ InitIdle /\ DartsIdle

NextBuild == \E p \in Writers : Load(p)

SpecBuild == InitBuild /\ [][NextBuild]_vars

\* ------------------------------------------------- SpecInit: StudyDataset.__init__
\* The URL the constructor builds, as its four credential components.  The
\* credentials argument is rebound to the environment's values before it is
\* read, and the copy merged back into it is a copy of those same values.
storage_url(credentials_arg, environ) ==
    LET creds == [f \in Fields |-> environ[f]]
        _credentials == creds
    IN [f \in Fields |-> _credentials[f]]

StudyDataset__init__ ==
    /\ ~_storage.constructed
    /\ _storage' = [constructed |-> TRUE, url |-> storage_url(credentials, env)]
    /\ UNCHANGED <<studyVars, resolveVars, env, credentials, dartsVars>>

InitInit ==
    /\ env \in [Fields -> {None, "from-env"}]
    /\ credentials \in {NoneDict} \cup
           {Dict(d) : d \in UNION {[S -> {"from-config"}] : S \in SUBSET Fields}}
    /\ _storage = [constructed |-> FALSE, url |-> [f \in Fields |-> None]]
    /\ study_name = <<"study1">>
    /\ _version = NoVersion
    /\ _backend = "postgresql"
    /\ db = EmptyStore
    /\ fileExists = TRUE
    /\ _load_args = [p \in Writers |-> DEFAULT_LOAD_ARGS]
    /\ WritersIdle /\ ResolveIdle /\ DartsIdle

NextInit == StudyDataset__init__

SpecInit == InitInit /\ [][NextInit]_vars

\* ------------------------------------------------- DartsTorchModelDataset
LoadMethods == {"load", "load_from_checkpoint", "load_weights",
                "load_weights_from_checkpoint", "predict"}
CheckpointMethods == {"load_from_checkpoint", "load_weights_from_checkpoint"}

\* dict.pop(key, default), the value
Get(d, key, default) == IF key \in DOMAIN d THEN d[key] ELSE default

\* what self._get_load_path() may do: without a Version it returns the
\* filepath; with one it globs and probes the filesystem, and raises
\* DatasetError (no version found) or whatever the probe raised
PathOutcomes(versioned) == IF versioned THEN {"ok", "DatasetError", "OSError"} ELSE {"ok"}
\* what self._fs.exists(load_path) may do
ExistsOutcomes == {"True", "False", "OSError"}
\* what the darts load/save routine may do
ModelOutcomes == {"ok", "RuntimeError"}
\* what self._get_save_path() may do: with a Version, DatasetError when the
\* versioned path exists already
SavePathOutcomes(versioned) == IF versioned THEN {"ok", "DatasetError"} ELSE {"ok"}

DartsResult(status, value, calls, raised) ==
    [status |-> status, value |-> value, calls |-> calls, raised |-> raised]

\* mutant: only load_from_checkpoint checks model_name
darts_load_one_check(load_args, pathOutcome, modelOutcome) ==
    LET load_method == Get(load_args, "load_method", "load")
        model_name == Get(load_args, "model_name", None)
    IN IF load_method \in {"load", "load_weights"}
       THEN IF pathOutcome # "ok"
            THEN DartsResult(pathOutcome, None, <<"_get_load_path">>, pathOutcome)
            ELSE DartsResult(modelOutcome, "model",
                             <<"_get_load_path", "model_class." \o load_method>>, None)
       ELSE IF load_method \in CheckpointMethods
       THEN IF load_method = "load_from_checkpoint" /\ model_name = None
            THEN DartsResult("ValueError", "model_name must be provided", <<>>, None)
            ELSE DartsResult(modelOutcome, "model", <<"model_class." \o load_method>>, None)
       ELSE DartsResult("ValueError", "Unknown load method", <<>>, None)

\* DartsTorchModelDataset.load
darts_load(load_args, pathOutcome, modelOutcome) ==
    LET load_method == Get(load_args, "load_method", "load")
        model_name == Get(load_args, "model_name", None)
    IN IF load_method \in {"load", "load_weights"}
       THEN IF pathOutcome # "ok"
            THEN DartsResult(pathOutcome, None, <<"_get_load_path">>, pathOutcome)
            ELSE DartsResult(modelOutcome, "model",
                             <<"_get_load_path", "model_class." \o load_method>>, None)
       ELSE IF load_method \in CheckpointMethods
       THEN IF model_name = None
            THEN DartsResult("ValueError", "model_name must be provided", <<>>, None)
            ELSE DartsResult(modelOutcome, "model", <<"model_class." \o load_method>>, None)
       ELSE DartsResult("ValueError", "Unknown load method", <<>>, None)

\* mutant: a bare except
Caught_any(raised) == TRUE

\* except DatasetError
Caught(raised) == raised = "DatasetError"

\* DartsTorchModelDataset._exists
darts_exists(pathOutcome, existsOutcome) ==
    LET raised == IF pathOutcome # "ok" THEN pathOutcome
                  ELSE IF existsOutcome \notin {"True", "False"} THEN existsOutcome
                  ELSE None
        calls == IF pathOutcome # "ok" THEN <<"_get_load_path">>
                 ELSE <<"_get_load_path", "_fs.exists">>
    IN IF raised = None THEN DartsResult("ok", existsOutcome, calls, None)
       ELSE IF Caught(raised) THEN DartsResult("ok", "False", calls, raised)
       ELSE DartsResult(raised, None, calls, raised)

\* DartsTorchModelDataset.save
darts_save(save_args, pathOutcome, modelOutcome) ==
    IF Get(save_args, "save_model", "True") = "True"
    THEN IF pathOutcome # "ok"
         THEN DartsResult(pathOutcome, None, <<"_get_save_path">>, pathOutcome)
         ELSE DartsResult(modelOutcome, None,
                          <<"_get_save_path", "os.makedirs", "data.save">>, None)
    ELSE DartsResult("ok", None, <<>>, None)

Finish(op, r) ==
    /\ d_res' = [op |-> op, status |-> r.status, value |-> r.value]
    /\ d_calls' = r.calls
    /\ d_raised' = r.raised
    /\ UNCHANGED <<d_versioned, d_load_args, d_save_args>>
    /\ UNCHANGED <<studyVars, resolveVars, initVars>>

DartsLoad ==
    \E po \in PathOutcomes(d_versioned), mo \in ModelOutcomes :
        Finish("load", darts_load(d_load_args, po, mo))

DartsSave ==
    \E po \in SavePathOutcomes(d_versioned), mo \in ModelOutcomes :
        Finish("save", darts_save(d_save_args, po, mo))

DartsExists ==
    \E po \in PathOutcomes(d_versioned), eo \in ExistsOutcomes :
        Finish("exists", darts_exists(po, eo))

\* DartsTorchModelDataset._release
DartsRelease ==
    /\ d_res' = [op |-> "release", status |-> "ok", value |-> None]
    /\ d_calls' = <<"_fs.invalidate_cache">>
    /\ d_raised' = None
    /\ UNCHANGED <<d_versioned, d_load_args, d_save_args>>
    /\ UNCHANGED <<studyVars, resolveVars, initVars>>

DartsLoadArgs ==
    {[k \in S |-> IF k = "load_method" THEN m ELSE n] :
         S \in SUBSET {"load_method", "model_name"},
         m \in LoadMethods, n \in {None, "my_model"}}
DartsSaveArgs == UNION {[S -> {"True", "False"}] : S \in SUBSET {"save_model"}}

InitDarts ==
    /\ d_versioned \in BOOLEAN
    /\ d_load_args \in DartsLoadArgs
    /\ d_save_args \in DartsSaveArgs
    /\ d_calls = <<>>
    /\ d_raised = None
    /\ d_res = [op |-> "none", status |-> "none", value |-> None]
    /\ study_name = <<"study1">>
    /\ _version = NoVersion
    /\ _backend = "postgresql"
    /\ db = EmptyStore
    /\ fileExists = TRUE
    /\ _load_args = [p \in Writers |-> DEFAULT_LOAD_ARGS]
    /\ WritersIdle /\ ResolveIdle /\ InitIdle

NextDarts == DartsLoad \/ DartsSave \/ DartsExists \/ DartsRelease

SpecDarts == InitDarts /\ [][NextDarts]_vars


\* ================================================= claims

\* C1: a versioned save whose exists check reports the resolved name
\* study_name/save_version/study_name as present ends with DatasetError in
\* that very step, having invoked no create, delete or copy, and leaves the
\* storage as it was.
C1_ConflictFailsWithoutWrites ==
    [][\A p \in Writers :
         (_version.enabled /\ SaveResolve(p) /\ existsReport'[p] = "present")
         => /\ res'[p] = Outcome("save", "DatasetError")
            /\ pc'[p] = "idle"
            /\ ops'[p] = {}
            /\ db' = db
            /\ fileExists' = fileExists]_vars

\* C1, witness: a versioned save met its target in the storage and ended
\* with DatasetError.
C1_Witness ==
    \E p \in Writers :
        /\ _version.enabled
        /\ existsReport[p] = "present"
        /\ res[p] = Outcome("save", "DatasetError")
        /\ study_name \o <<_version.save>> \o study_name \in DOMAIN db

\* C9, as stated: in no execution of a versioned save is delete invoked.
C9_DeleteOnlyUnversioned ==
    _version.enabled => \A p \in Writers : "delete" \notin ops[p]

\* C9, amended: a versioned save invokes delete only when another writer
\* created the target name between this save's step-1 check and its step-3
\* test; initialising the sqlite store in step 2 never leads to a delete.
C9_DeleteOnlyAfterInterference ==
    _version.enabled => \A p \in Writers : "delete" \in ops[p] => interfered[p]

\* C9, witness: a versioned save on sqlite initialised the store in step 2,
\* found the target absent in step 3 and copied, with no delete.
C9_Witness ==
    \E p \in Writers :
        /\ _version.enabled
        /\ _backend = "sqlite"
        /\ res[p] = Outcome("save", "ok")
        /\ ops[p] = {"create", "copy"}
        /\ ~interfered[p]

\* C10: with versioning disabled, every finished save of the study this
\* adapter loaded has succeeded and the storage still holds study_name.
C10_SaveLoadedPreserves ==
    \A p \in Writers :
        (/\ ~_version.enabled
         /\ pc[p] = "idle"
         /\ res[p].op = "save"
         /\ held[p] = DbStudy(study_name))
        => /\ res[p].status = "ok"
           /\ study_name \in DOMAIN db

\* ------------------------------------------------- claims under SpecResolve
BothResolved == r_load.status # "none" /\ r_save.status # "none"
PinnedSame == _version.enabled /\ _version.load # None /\ _version.load = _version.save

\* the logical name is a relative path that PurePosixPath leaves as it is
Normalised ==
    /\ ~PurePosixPath(study_name).abs
    /\ Str(PurePosixPath(study_name)) = study_name

\* C2, as stated: with load and save version pinned to the same V, both
\* resolutions yield study_name/V/study_name.
C2_RoundTrip ==
    (PinnedSame /\ BothResolved)
    => /\ r_load.status = "ok"
       /\ r_save.status = "ok"
       /\ r_load.name = study_name \o <<_version.load>> \o study_name
       /\ r_save.name = r_load.name

\* C2, amended: the load resolution yields a name, which is
\* study_name/V/study_name when the logical name is a normalised relative
\* path; the save resolution yields the same name when the exists check
\* reports it absent, and fails with DatasetError when it reports it present.
C2_RoundTripUnlessConflict ==
    (PinnedSame /\ BothResolved)
    => /\ r_load.status = "ok"
       /\ Normalised => r_load.name = study_name \o <<_version.load>> \o study_name
       /\ r_save.exists \in {"present", "absent"}
       /\ r_save.exists = "absent" => (r_save.status = "ok" /\ r_save.name = r_load.name)
       /\ r_save.exists = "present" => r_save.status = "DatasetError"

\* C2, witness: with "2024-01-01T00.00.00" pinned for load and save, both
\* resolutions returned study1/2024-01-01T00.00.00/study1.
C2_Witness ==
    /\ PinnedSame /\ BothResolved
    /\ study_name = <<"study1">>
    /\ r_save.status = "ok"
    /\ r_save.name = <<"study1", "2024-01-01T00.00.00", "study1">>
    /\ r_load.name = r_save.name

\* the version tokens of the studies that follow study_name/<token>/study_name
ConventionVersions ==
    {n[Len(study_name) + 1] :
        n \in {m \in DOMAIN db : \E t \in Tokens : m = study_name \o <<t>> \o study_name}}
LatestConventionVersion ==
    CHOOSE v \in ConventionVersions : \A w \in ConventionVersions : Rank(w) <= Rank(v)

\* C3: with versioning on and no load version pinned (and a logical name that
\* is a normalised relative path), the load resolution yields
\* study_name/V/study_name for the greatest V among the studies that follow
\* the convention, fails with the no-version-found error when there is none,
\* and no other study of the storage changes that.
C3_LatestAmongConvention ==
    (/\ Normalised
     /\ _version.enabled /\ _version.load = None
     /\ r_load.status # "none")
    => IF ConventionVersions = {}
       THEN r_load.status = "DatasetError"
       ELSE /\ r_load.status = "ok"
            /\ r_load.name = study_name \o <<LatestConventionVersion>> \o study_name

\* C4: with versioning disabled both resolutions yield exactly study_name,
\* consult neither the lister nor the exists check, and never fail.
C4_UnversionedIsLogicalName ==
    ~_version.enabled
    => /\ r_load.status # "none" =>
            r_load = [status |-> "ok", name |-> study_name, calls |-> {}]
       /\ r_save.status # "none" =>
            r_save = [status |-> "ok", name |-> study_name, calls |-> {},
                      exists |-> "none"]

\* C4, witness: versioning is off, both resolutions ran on a logical name
\* that PurePosixPath would rewrite, and the storage holds that name and
\* names the lister would match.
C4_Witness ==
    /\ ~_version.enabled
    /\ BothResolved
    /\ ~Normalised
    /\ r_load.name = study_name /\ r_save.name = study_name
    /\ study_name \in DOMAIN db
    /\ _study_name_glob(db, Str(_get_versioned_path(study_name, "*"))) # {}

\* ------------------------------------------------- claims under SpecBuild
CallsOf(calls, kind) == SelectSeq(calls, LAMBDA c : c.registry = kind)
Names(config, registry) ==
    ~config.none /\ "class" \in DOMAIN config.d /\ config.d["class"] \in registry

\* C5: a load leaves the stored load_args as they were; a sampler (pruner)
\* config whose class names a registry entry T makes exactly one constructor
\* call, of T, with the config's entries other than class as keyword
\* arguments, and the dict handed to the builder holds no class afterwards.
C5_BuildConsumesClass ==
    [][\A p \in Writers :
         Load(p) =>
           LET sc == _load_args[p].sampler
               pcfg == _load_args[p].pruner
           IN /\ _load_args'[p] = _load_args[p]
              /\ Names(sc, Samplers) =>
                   /\ CallsOf(frame'[p].calls, "samplers") =
                        <<[registry |-> "samplers", cls |-> sc.d["class"],
                           kwargs |-> Pop(sc.d, "class")]>>
                   /\ "class" \notin DOMAIN frame'[p].sampler_config.d
              /\ ((sc.none \/ Names(sc, Samplers)) /\ Names(pcfg, Pruners)) =>
                   /\ CallsOf(frame'[p].calls, "pruners") =
                        <<[registry |-> "pruners", cls |-> pcfg.d["class"],
                           kwargs |-> Pop(pcfg.d, "class")]>>
                   /\ "class" \notin DOMAIN frame'[p].pruner_config.d]_vars

\* C5, witness: a load built a sampler and a pruner from configs with a
\* class, the sampler with seed as keyword argument; the stored load_args
\* still hold both class entries.
C5_Witness ==
    \E p \in Writers :
        /\ res[p] = Outcome("load", "ok")
        /\ Len(frame[p].calls) = 2
        /\ frame[p].calls[1].kwargs = [k \in {"seed"} |-> "42"]
        /\ "class" \in DOMAIN _load_args[p].sampler.d
        /\ "class" \in DOMAIN _load_args[p].pruner.d

\* ------------------------------------------------- claims under SpecInit
\* C8: once constructed, each credential field of the storage URL is the
\* explicitly supplied value when there is one, and the environment's value
\* otherwise.
C8_ExplicitOverridesEnv ==
    _storage.constructed
    => \A f \in Fields :
         _storage.url[f] = IF ~credentials.none /\ f \in DOMAIN credentials.d
                           THEN credentials.d[f]
                           ELSE env[f]

\* ------------------------------------------------- claims under SpecDarts
\* C6: a load by a checkpoint method without a model_name fails with
\* ValueError before any path resolution, filesystem or model call.
C6_MissingModelName ==
    (/\ d_res.op = "load"
     /\ Get(d_load_args, "load_method", "load") \in CheckpointMethods
     /\ Get(d_load_args, "model_name", None) = None)
    => /\ d_res.status = "ValueError"
       /\ d_res.value = "model_name must be provided"
       /\ d_calls = <<>>

\* C6, witness: a versioned dataset, load_weights_from_checkpoint, no
\* model_name: the load ended with ValueError.
C6_Witness ==
    /\ d_res.op = "load"
    /\ d_versioned
    /\ Get(d_load_args, "load_method", "load") = "load_weights_from_checkpoint"
    /\ "model_name" \notin DOMAIN d_load_args
    /\ d_res.status = "ValueError"

\* C7, as stated: whatever is raised inside exists, exists returns False.
C7_AnyErrorIsFalse ==
    (d_res.op = "exists" /\ d_raised # None)
    => (d_res.status = "ok" /\ d_res.value = "False")

\* C7, amended: a DatasetError raised while the load path is resolved makes
\* exists return False; an error of any other type, from the path resolution
\* or from the filesystem's exists, reaches the caller.
C7_DatasetErrorIsFalse ==
    d_res.op = "exists"
    => /\ d_raised = "DatasetError" => (d_res.status = "ok" /\ d_res.value = "False")
       /\ d_raised \notin {None, "DatasetError"} => d_res.status = d_raised

\* C7, witness: the path resolution raised DatasetError and exists
\* returned False.
C7_Witness ==
    /\ d_res.op = "exists"
    /\ d_raised = "DatasetError"
    /\ d_res.status = "ok"
    /\ d_res.value = "False"

=============================================================================
